---- MODULE Spec2Model ----
(***************************************************************************)
(* The capsule network builder of bit: Network.createSubNetwork,           *)
(* Network.createCapsule and the resource key derivation, with the         *)
(* manifest snapshots that select the capsules to install.                 *)
(*                                                                         *)
(* JavaScript values are encoded as follows.  A string is a sequence of    *)
(* atoms (a character such as "a", "/", "_", or an indivisible chunk such  *)
(* as a base directory).  A plain object is the sequence of its            *)
(* <<key, value>> pairs in insertion order; option values are the atoms    *)
(* "true", "false", a directory, a name, or Undefined.                     *)
(***************************************************************************)
EXTENDS Integers, Sequences, FiniteSets, TLC

VARIABLES
    prevKey,    \* the pool request made by the previous createCapsule call
    curKey,     \* the pool request made by the latest createCapsule call
    uuid,       \* number of tokens v4() has handed out so far
    graph,      \* the dependency graph the consumer or scope yields
    seeders,    \* the seed ids createSubNetwork is called with
    disk,       \* working directory -> text of its package.json, where one exists
    pc,         \* "idle", "resolved", "capsules", "writing", "returned", "failed",
                \* or "called" when isolateComponentsInCapsules is called directly
    given,      \* the config and orchestrationOptions arguments of the call
    merged,     \* actualCapsuleOptions and orchOptions of the call
    components, \* the resolved component list
    requests,   \* the getCapsule request issued for each component
    capsules,   \* index -> capsule, for the getCapsule calls that resolved
    rejected,   \* the tasks that rejected: [getCapsule |-> .., persist |-> ..]
    before,     \* index -> manifest snapshot taken before materialization
    written,    \* writtenComponents of the writer, <<>> until it has run
    persisted,  \* the written components whose persist task completed
    after,      \* index -> manifest snapshot taken after materialization
    installs,   \* the runInstall invocations of the call
    failure,    \* what made the call fail, "none" otherwise
    prev,       \* summary of the previous createSubNetwork call
    calls,      \* number of createSubNetwork calls made so far
    files,      \* index -> dataToPersist.files of the component, <<>> until populated
    returned,   \* what isolateComponentsInCapsules returned, once it has
    isolationDefaults, \* DEFAULT_ISOLATION_OPTIONS of capsule-isolate.ts, as it is now
    globalDefaults,    \* DEFAULT_GLOBAL_OPTIONS of capsule-isolate.ts, as it is now
    legacyPc,          \* capsuleIsolate: "idle", "isolating" or "done"
    legacyArgs,        \* the arguments of the latest capsuleIsolate call
    legacyCapsules,    \* the capsules createOrGetCapsules obtained for the call
    legacyTasks,       \* index -> "getInstance", "isolate" or "done"
    legacyInstalled,   \* whether the call ran installpackages
    legacyCalls        \* number of capsuleIsolate calls made so far

keyVars == <<prevKey, curKey>>

callVars == <<pc, given, merged, components, requests, capsules, rejected,
              before, written, persisted, after, installs, failure, files, returned>>

netVars == <<graph, seeders, disk, callVars, prev, calls>>

legacyVars == <<isolationDefaults, globalDefaults, legacyPc, legacyArgs, legacyCapsules,
                legacyTasks, legacyInstalled, legacyCalls>>

vars == <<prevKey, curKey, uuid, netVars, legacyVars>>

----------------------------------------------------------------------------
(* Bounds of the model *)

\* largest number of keys in a caller-supplied CapsuleOptions object
MaxOptKeys == 3

\* capsuleIsolate is called at most this many times in one behaviour
MaxLegacyCalls == 2

\* v4() is called at most this many times in one behaviour
MaxUuid == 2

\* createSubNetwork is called at most this many times in one behaviour
MaxCalls == 2

----------------------------------------------------------------------------
(* Plain objects *)

Undefined == "undefined"

NoRequest == [bitId |-> <<>>, given |-> <<>>, orch |-> <<>>,
              workspace |-> "", resourceId |-> <<>>, wrkDir |-> <<>>]

HasKey(o, k) == \E i \in 1..Len(o) : o[i][1] = k

\* o[k], undefined when the key is missing
Get(o, k) ==
    IF HasKey(o, k) THEN o[CHOOSE i \in 1..Len(o) : o[i][1] = k][2] ELSE Undefined

\* o[k] = v : an existing key keeps its position, a new key is appended
SetKey(o, k, v) ==
    IF HasKey(o, k)
    THEN [i \in 1..Len(o) |-> IF o[i][1] = k THEN <<k, v>> ELSE o[i]]
    ELSE Append(o, <<k, v>>)

RECURSIVE ObjectAssign(_, _)
\* Object.assign(target, source) on a fresh target
ObjectAssign(target, source) ==
    IF source = <<>> THEN target
    ELSE ObjectAssign(SetKey(target, Head(source)[1], Head(source)[2]), Tail(source))

\* JavaScript truthiness of an option value
Truthy(v) == v \notin {Undefined, "", "false"}

----------------------------------------------------------------------------
(* Module constants of the network builder *)

TmpDir == "/tmp"

DEFAULT_ISOLATION_OPTIONS ==
    << <<"baseDir", TmpDir>>,
       <<"writeDists", "true">>,
       <<"writeBitDependencies", "true">>,
       <<"installPackages", "true">>,
       <<"workspace", "string">> >>

DEFAULT_OPTIONS == << <<"alwaysNew", "false">> >>

\* the default of the constructor's workspaceName parameter
workspaceName == "any"

----------------------------------------------------------------------------
(* Library functions used by the key derivation *)

\* every key an options object of the model can hold, in sorted order
SortedKeys ==
    <<"baseDir", "installPackages", "packageManager", "workspace",
      "writeBitDependencies", "writeDists">>

RECURSIVE CanonicalFrom(_, _)
CanonicalFrom(o, i) ==
    IF i > Len(SortedKeys) THEN <<>>
    ELSE (IF HasKey(o, SortedKeys[i])
          THEN <<SortedKeys[i], "=", Get(o, SortedKeys[i]), ";">>
          ELSE <<>>) \o CanonicalFrom(o, i + 1)

\* object-hash of a plain object: the digest of its entries taken in sorted
\* key order (the library's default), kept here as that canonical text
hashObject(o) == <<"#">> \o CanonicalFrom(o, 1)

\* object-hash of a string
hashString(s) == <<"#">> \o s

ReservedChars == {"/", "\\", "<", ">", ":", "|", "?", "*"}

\* filenamify(s, {replacement: '_'})
filenamify(s) == [i \in 1..Len(s) |-> IF s[i] \in ReservedChars THEN "_" ELSE s[i]]

\* a generator that hands out the same token every time
V4TokenFixed(n) == <<"u">>

\* the n-th token of v4()
V4Token(n) == [i \in 1..n |-> "u"]

\* path.join(dir, name)
pathJoin(dir, name) == <<dir, "/">> \o name

----------------------------------------------------------------------------
(* Resource key derivation *)

\* the working directory taken from the options hash even when a name is given
generateWrkDirUnnamed(dirName, capsuleOptions, options, n) ==
    LET baseDir == IF Truthy(Get(capsuleOptions, "baseDir"))
                   THEN Get(capsuleOptions, "baseDir") ELSE TmpDir
        normalized == SetKey(capsuleOptions, "baseDir", baseDir)
    IN  IF Truthy(Get(options, "alwaysNew"))
        THEN pathJoin(baseDir, dirName \o <<"_">> \o V4Token(n + 1))
        ELSE pathJoin(baseDir, dirName \o <<"_">> \o hashObject(normalized))

\* _generateWrkDir, with n the number of tokens v4() handed out before
generateWrkDir(dirName, capsuleOptions, options, n) ==
    LET baseDir == IF Truthy(Get(capsuleOptions, "baseDir"))
                   THEN Get(capsuleOptions, "baseDir") ELSE TmpDir
        normalized == SetKey(capsuleOptions, "baseDir", baseDir)
    IN  IF Truthy(Get(options, "alwaysNew"))
        THEN pathJoin(baseDir, dirName \o <<"_">> \o V4Token(n + 1))
        ELSE IF Truthy(Get(options, "name"))
        THEN pathJoin(baseDir, dirName \o <<"_", Get(options, "name")>>)
        ELSE pathJoin(baseDir, dirName \o <<"_">> \o hashObject(normalized))

\* _generateResourceConfig
generateResourceConfig(bitId, capsuleOptions, options, n) ==
    LET dirName == filenamify(bitId)
        wrkDir == generateWrkDir(dirName, capsuleOptions, options, n)
    IN  [resourceId |-> bitId \o <<"_">> \o hashString(wrkDir),
         bitId |-> bitId,
         wrkDir |-> wrkDir]

\* createCapsule handing the caller's options on without the defaults
MergedCapsuleOptionsNoDefaults(capsuleOptions) == capsuleOptions

\* the capsule options createCapsule derives the key from
MergedCapsuleOptions(capsuleOptions) ==
    ObjectAssign(DEFAULT_ISOLATION_OPTIONS, capsuleOptions)

\* the pool namespace createCapsule asks in
PoolWorkspace(capsuleOptions) ==
    IF Truthy(Get(capsuleOptions, "workspace"))
    THEN Get(capsuleOptions, "workspace") ELSE workspaceName

\* createCapsule: the request it hands to orchestrator.getCapsule
createCapsule(bitId, capsuleOptions, orchestrationOptions, n) ==
    LET actualCapsuleOptions == MergedCapsuleOptions(capsuleOptions)
        orchOptions == ObjectAssign(DEFAULT_OPTIONS, orchestrationOptions)
        config == generateResourceConfig(bitId, actualCapsuleOptions, orchOptions, n)
    IN  [bitId |-> bitId,
         given |-> capsuleOptions,
         orch |-> orchOptions,
         workspace |-> PoolWorkspace(capsuleOptions),
         resourceId |-> config.resourceId,
         wrkDir |-> config.wrkDir]

\* v4() is called once per createCapsule with alwaysNew, not otherwise
UuidAfter(orchestrationOptions, n) ==
    IF Truthy(Get(ObjectAssign(DEFAULT_OPTIONS, orchestrationOptions), "alwaysNew"))
    THEN n + 1 ELSE n


----------------------------------------------------------------------------
(* The dependency graph *)

Ids == { <<"a">>, <<"b">>, <<"c">> }

IdOrder == << <<"a">>, <<"b">>, <<"c">> >>

DependencyKinds ==
    {"dependencies", "devDependencies", "compilerDependencies", "testerDependencies"}

\* what graph.node yields for an id that has no component
Absent == <<>>

\* the text of a package.json; NoFile where there is none
NoFile == "ENOENT"

ManifestTexts == {"m1", "m1 ", "m2", "bad"}

\* graph.node(id)
GraphNode(g, id) == IF id \in g.present THEN id ELSE Absent

\* the ids an edge of any kind leads to from id, in the graph's order
Successors(g, id) ==
    SelectSeq(IdOrder,
              LAMBDA s : id \in g.present /\ \E k \in DependencyKinds : s \in g.deps[id][k])

RECURSIVE Walk(_, _, _, _)
Walk(g, todo, visited, out) ==
    IF todo = <<>> THEN out
    ELSE IF Head(todo) \in visited THEN Walk(g, Tail(todo), visited, out)
    ELSE Walk(g, Successors(g, Head(todo)) \o Tail(todo), visited \cup {Head(todo)},
              out \o Successors(g, Head(todo)))

\* graph.getSuccessorsByEdgeTypeRecursively(id): every id met when following
\* the edges from id, one entry per edge followed
getSuccessorsByEdgeTypeRecursively(g, id) == Walk(g, <<id>>, {}, <<>>)

----------------------------------------------------------------------------
(* Closure resolution *)

RECURSIVE flatten(_)
flatten(lists) == IF lists = <<>> THEN <<>> ELSE Head(lists) \o flatten(Tail(lists))

RECURSIVE uniq(_)
\* ramda uniq: the first occurrence of each element, in order
uniq(list) ==
    IF list = <<>> THEN <<>>
    ELSE LET init == uniq(SubSeq(list, 1, Len(list) - 1))
             last == list[Len(list)]
         IN  IF \E i \in 1..Len(init) : init[i] = last THEN init ELSE Append(init, last)

\* the lookup list without the de-duplication
ClosureIdsNoUniq(seeds, g) ==
    flatten([i \in 1..Len(seeds) |-> getSuccessorsByEdgeTypeRecursively(g, seeds[i])])
    \o seeds

\* the ids whose nodes createSubNetwork looks up
ClosureIds(seeds, g) ==
    LET depenenciesFromAllIds ==
            flatten([i \in 1..Len(seeds) |-> getSuccessorsByEdgeTypeRecursively(g, seeds[i])])
    IN  uniq(depenenciesFromAllIds \o seeds)

\* the component list of createSubNetwork
ResolveComponents(seeds, g) ==
    LET ids == ClosureIds(seeds, g)
        nodes == [i \in 1..Len(ids) |-> GraphNode(g, ids[i])]
    IN  SelectSeq(nodes, LAMBDA val : val # Absent)

----------------------------------------------------------------------------
(* Manifest snapshots *)

Null == [kind |-> "null", val |-> ""]

\* the texts JSON.parse accepts
Parseable == {"m1", "m1 ", "m2"}

\* the value JSON.parse yields: "m1 " is "m1" laid out differently
JSONParse(text) == IF text = "m1 " THEN "m1" ELSE text

\* capsule.fs.promises.readFile of <wrkDir>/package.json; NoFile when it throws
ReadFile(d, dir) == IF dir \in DOMAIN d THEN d[dir] ELSE NoFile

\* getPackageJSONInCapsules for one capsule, from the text of its manifest
getPackageJSON(content) ==
    IF content = NoFile THEN Null
    ELSE IF content \in Parseable THEN [kind |-> "object", val |-> JSONParse(content)]
    ELSE [kind |-> "string", val |-> content]

\* identity in place of deep equality: two parsed objects are never the same
equalsByReference(x, y) == x = y /\ x.kind # "object"

\* a null snapshot counted as different from everything
equalsNullDiffers(x, y) == x = y /\ x # Null

\* ramda equals on two snapshots
equals(x, y) == x = y

\* every capsule selected, whatever the snapshots
toInstallAll(n, bef, aft) == [i \in 1..n |-> i]

\* capsules.filter((item, i) => !equals(before[i], after[i])), as indices
toInstall(n, bef, aft) ==
    SelectSeq([i \in 1..n |-> i], LAMBDA i : ~equals(bef[i], aft[i]))

\* the install step without its gate
InstallEnabledAlways(capsuleOptions) == TRUE

\* if (actualCapsuleOptions.installPackages)
InstallEnabled(capsuleOptions) == Truthy(Get(capsuleOptions, "installPackages"))

\* the second argument of runInstall, <<>> when it is called with one
InstallOptions(capsuleOptions) ==
    IF Truthy(Get(capsuleOptions, "packageManager"))
    THEN << <<"packageManager", Get(capsuleOptions, "packageManager")>> >>
    ELSE <<>>

----------------------------------------------------------------------------
(* Materialization *)

KindOrder ==
    <<"dependencies", "devDependencies", "compilerDependencies", "testerDependencies">>

\* component.<kind>.get().map(dep => graph.node(dep.id.toString()))
LookupDependencies(g, id, kind) ==
    LET ids == SelectSeq(IdOrder, LAMBDA d : d \in g.deps[id][kind])
    IN  [i \in 1..Len(ids) |-> GraphNode(g, ids[i])]

\* ComponentWithDependencies.allDependencies
allDependencies(g, id) ==
    flatten([k \in 1..Len(KindOrder) |-> LookupDependencies(g, id, KindOrder[k])])

\* _manipulateDir calls stripOriginallySharedDir on the component and on every
\* entry of allDependencies: a TypeError when an entry is undefined
manipulateDirThrows(g, id) ==
    \E i \in 1..Len(allDependencies(g, id)) : allDependencies(g, id)[i] = Absent

\* manyComponentsWriter.writtenComponents: one per component handed to the writer
writtenComponents(comps) == comps

\* manyComponentsWriter._populateComponentsFilesToWrite: the files of the
\* component itself, its manifest among them when it has one
populateComponentsFilesToWrite(g, id) ==
    << [kind |-> "own", name |-> "index.js"] >>
    \o (IF g.packageJson[id] = NoFile THEN <<>>
        ELSE << [kind |-> "own", name |-> "package.json"] >>)

\* getComponentLinks: one link file per entry of allDependencies
getComponentLinks(g, id) ==
    [i \in 1..Len(allDependencies(g, id)) |->
        [kind |-> "link", name |-> allDependencies(g, id)[i][1]]]

\* the two lists joined the other way round
concatSwapped(first, second) == second \o first

\* ramda concat
concat(first, second) == first \o second

\* lines 175-186: dataToPersist.files of a component after the links are added
dataToPersistFiles(g, id) ==
    concat(getComponentLinks(g, id), populateComponentsFilesToWrite(g, id))

NotReturned == [done |-> FALSE, value |-> <<>>]

NoCapsule == [bitId |-> <<>>, wrkDir |-> <<>>]

\* the capsule orchestrator.getCapsule resolves to
PoolCapsule(request) == [bitId |-> request.bitId, wrkDir |-> request.wrkDir]

\* capsuleList.getValue(id) on the list built from the capsules
capsuleListGetValue(caps, id) ==
    IF \E i \in DOMAIN caps : caps[i].bitId = id
    THEN caps[CHOOSE i \in DOMAIN caps : caps[i].bitId = id]
    ELSE NoCapsule

\* a persist that clears every other capsule directory
persistAllClearingOthers(d, capsule, packageJson) ==
    IF packageJson = NoFile THEN d ELSE (capsule.wrkDir :> packageJson)

\* dataToPersist.persistAllToCapsule(capsule, {keepExistingCapsule: true}):
\* the files of the component replace their counterparts, the rest stays
persistAllToCapsule(d, capsule, packageJson) ==
    IF packageJson = NoFile THEN d
    ELSE [dir \in DOMAIN d \cup {capsule.wrkDir} |->
            IF dir = capsule.wrkDir THEN packageJson ELSE d[dir]]

\* Promise.all over the tasks `all`, of which `done` have resolved
PromiseAllResolved(done, all) == done = all

\* a rejection that is swallowed
PromiseAllRejectedIgnored(now, awaiting) == now

\* a task of a Promise.all rejects: the awaiting call fails, a call that is
\* no longer awaiting is not affected
PromiseAllRejected(now, awaiting) == IF now = awaiting THEN "failed" ELSE now

----------------------------------------------------------------------------
(* createSubNetwork as a state machine *)

\* the config and orchestrationOptions arguments a call is made with
CallArguments ==
    { [config |-> <<>>, orch |-> <<>>],
      [config |-> << <<"installPackages", "false">> >>, orch |-> <<>>],
      [config |-> << <<"packageManager", "yarn">> >>, orch |-> <<>>],
      [config |-> <<>>, orch |-> << <<"alwaysNew", "true">> >>] }

NoTasks == [getCapsule |-> {}, persist |-> {}]

NoSummary ==
    [pc |-> "idle", given |-> [config |-> <<>>, orch |-> <<>>],
     emptyBefore |-> FALSE, populated |-> {}, installed |-> <<>>]

\* what is kept of a call once the next one starts: its arguments and outcome
\* and, for a call that returned, whether every capsule had no manifest
\* before materialization, which capsules had one after it, and the capsules
\* passed to the install step
Summary ==
    IF pc = "returned"
    THEN [pc |-> pc, given |-> given,
          emptyBefore |-> \A i \in DOMAIN before : before[i] = Null,
          populated |-> {i \in DOMAIN after : after[i] # Null},
          installed |-> IF installs = <<>> THEN <<>> ELSE installs[1].capsules]
    ELSE [NoSummary EXCEPT !.pc = pc, !.given = given]

All == 1..Len(components)

PendingGetCapsule == (1..Len(requests)) \ (DOMAIN capsules \cup rejected.getCapsule)

PendingPersist == (1..Len(written)) \ (persisted \cup rejected.persist)

CapsulesJoined == PromiseAllResolved(DOMAIN capsules, All)

BeforeJoined == CapsulesJoined /\ PromiseAllResolved(DOMAIN before, All)

\* the persist tasks raced instead of joined
PersistJoinedEarly == persisted # {} \/ written = <<>>

\* await Promise.all(writtenComponents.map(...)) has resolved
PersistJoined == PromiseAllResolved(persisted, 1..Len(written))

AfterJoined == PersistJoined /\ PromiseAllResolved(DOMAIN after, All)

IdleCall ==
    /\ pc = "idle"
    /\ given = [config |-> <<>>, orch |-> <<>>]
    /\ merged = [capsule |-> <<>>, orch |-> <<>>]
    /\ components = <<>>
    /\ requests = <<>>
    /\ capsules = <<>>
    /\ rejected = NoTasks
    /\ before = <<>>
    /\ written = <<>>
    /\ persisted = {}
    /\ after = <<>>
    /\ installs = <<>>
    /\ failure = "none"
    /\ files = <<>>
    /\ returned = NotReturned
    /\ prev = NoSummary
    /\ calls = 0

\* lines 74-86: the options are merged and the closure is resolved.  A call
\* starts when the tasks of the call before it have settled.
ResolveClosure ==
    \E args \in CallArguments :
        LET comps == ResolveComponents(seeders, graph)
            config == args.config
            orch == args.orch
        IN  /\ pc \in {"idle", "returned", "failed"}
            /\ calls < MaxCalls
            /\ calls' = calls + 1
            /\ PendingGetCapsule = {} /\ PendingPersist = {}
            /\ Truthy(Get(ObjectAssign(DEFAULT_OPTIONS, orch), "alwaysNew"))
                 => uuid + Len(comps) <= MaxUuid
            /\ prev' = Summary
            /\ pc' = "resolved"
            /\ given' = args
            /\ merged' = [capsule |-> ObjectAssign(DEFAULT_ISOLATION_OPTIONS, config),
                          orch |-> ObjectAssign(DEFAULT_OPTIONS, orch)]
            /\ components' = comps
            /\ requests' = <<>>
            /\ capsules' = <<>>
            /\ rejected' = NoTasks
            /\ before' = <<>>
            /\ written' = <<>>
            /\ persisted' = {}
            /\ after' = <<>>
            /\ installs' = <<>>
            /\ failure' = "none"
            /\ files' = <<>>
            /\ returned' = NotReturned
            /\ UNCHANGED <<legacyVars, graph, seeders, disk, uuid, keyVars>>

\* lines 89-93: createCapsule runs to its getCapsule call for every component
CreateCapsules ==
    /\ pc = "resolved"
    /\ requests' = [i \in All |->
                      createCapsule(components[i], merged.capsule, merged.orch,
                                    uuid + i - 1)]
    /\ uuid' = IF Truthy(Get(merged.orch, "alwaysNew")) THEN uuid + Len(components)
               ELSE uuid
    /\ pc' = "capsules"
    /\ UNCHANGED <<legacyVars, files, returned, graph, seeders, disk, keyVars, prev, calls, given, merged, components,
                   capsules, rejected, before, written, persisted, after, installs,
                   failure>>

\* orchestrator.getCapsule resolves for component i
GetCapsuleResolve(i) ==
    /\ i \in PendingGetCapsule
    /\ capsules' = capsules @@ (i :> PoolCapsule(requests[i]))
    /\ UNCHANGED <<legacyVars, files, returned, graph, seeders, disk, uuid, keyVars, prev, calls, pc, given, merged,
                   components, requests, rejected, before, written, persisted, after,
                   installs, failure>>

\* orchestrator.getCapsule rejects for component i
GetCapsuleReject(i) ==
    /\ i \in PendingGetCapsule
    /\ rejected' = [rejected EXCEPT !.getCapsule = @ \cup {i}]
    /\ pc' = PromiseAllRejected(pc, "capsules")
    /\ failure' = IF pc = "capsules" THEN "getCapsule" ELSE failure
    /\ UNCHANGED <<legacyVars, files, returned, graph, seeders, disk, uuid, keyVars, prev, calls, given, merged,
                   components, requests, capsules, before, written, persisted, after,
                   installs>>

\* line 97: the manifest of capsule i is read before materialization
ReadBefore(i) ==
    /\ pc = "capsules"
    /\ CapsulesJoined
    /\ i \in All \ DOMAIN before
    /\ before' = before @@ (i :> getPackageJSON(ReadFile(disk, capsules[i].wrkDir)))
    /\ UNCHANGED <<legacyVars, files, returned, graph, seeders, disk, uuid, keyVars, prev, calls, pc, given, merged,
                   components, requests, capsules, rejected, written, persisted, after,
                   installs, failure>>

\* lines 140-186: the dependencies are looked up, the directories normalized,
\* the files populated and the links generated
Isolate ==
    /\ pc \in {"capsules", "called"}
    /\ pc = "capsules" => BeforeJoined
    /\ IF \E i \in All : manipulateDirThrows(graph, components[i])
       THEN /\ pc' = "failed"
            /\ failure' = "TypeError"
            /\ written' = written
            /\ files' = files
       ELSE /\ pc' = "writing"
            /\ failure' = failure
            /\ written' = writtenComponents(components)
            /\ files' = [i \in All |-> dataToPersistFiles(graph, components[i])]
    /\ UNCHANGED <<legacyVars, returned, graph, seeders, disk, uuid, keyVars, prev, calls, given, merged,
                   components, requests, capsules, rejected, before, persisted, after,
                   installs>>

\* the writer or the link generator throws
MaterializeThrows ==
    /\ pc \in {"capsules", "called"}
    /\ pc = "capsules" => BeforeJoined
    /\ ~ \E i \in All : manipulateDirThrows(graph, components[i])
    /\ pc' = "failed"
    /\ failure' = "writer"
    /\ UNCHANGED <<legacyVars, files, returned, graph, seeders, disk, uuid, keyVars, prev, calls, given, merged,
                   components, requests, capsules, rejected, before, written,
                   persisted, after, installs>>

\* lines 189-193: the files of written component k are persisted
Persist(k) ==
    /\ k \in PendingPersist
    /\ LET capsule == capsuleListGetValue(capsules, written[k])
       IN  disk' = IF capsule = NoCapsule THEN disk
                   ELSE persistAllToCapsule(disk, capsule, graph.packageJson[written[k]])
    /\ persisted' = persisted \cup {k}
    /\ UNCHANGED <<legacyVars, files, returned, graph, seeders, uuid, keyVars, prev, calls, pc, given, merged,
                   components, requests, capsules, rejected, before, written, after,
                   installs, failure>>

\* persistAllToCapsule rejects for written component k
PersistReject(k) ==
    /\ k \in PendingPersist
    /\ rejected' = [rejected EXCEPT !.persist = @ \cup {k}]
    /\ pc' = PromiseAllRejected(pc, "writing")
    /\ failure' = IF pc = "writing" THEN "persist" ELSE failure
    /\ UNCHANGED <<legacyVars, files, returned, graph, seeders, disk, uuid, keyVars, prev, calls, given, merged,
                   components, requests, capsules, before, written, persisted, after,
                   installs>>

\* line 195: every persist task has resolved, the written components are
\* returned
IsolateReturn ==
    /\ pc = "writing"
    /\ PersistJoined
    /\ ~returned.done
    /\ returned' = [done |-> TRUE, value |-> written]
    /\ UNCHANGED <<legacyVars, files, graph, seeders, disk, uuid, keyVars, prev, calls,
                   pc, given, merged, components, requests, capsules, rejected, before,
                   written, persisted, after, installs, failure>>

\* line 101: the manifest of capsule i is read after materialization
ReadAfter(i) ==
    /\ pc = "writing"
    /\ PersistJoined
    /\ returned.done
    /\ i \in All \ DOMAIN after
    /\ after' = after @@ (i :> getPackageJSON(ReadFile(disk, capsules[i].wrkDir)))
    /\ UNCHANGED <<legacyVars, files, returned, graph, seeders, disk, uuid, keyVars, prev, calls, pc, given, merged,
                   components, requests, capsules, rejected, before, written,
                   persisted, installs, failure>>

\* lines 103-111: the install step
RunInstall ==
    /\ pc = "writing"
    /\ AfterJoined
    /\ installs = <<>>
    /\ InstallEnabled(merged.capsule)
    /\ installs' = << [capsules |-> toInstall(Len(components), before, after),
                       options |-> InstallOptions(merged.capsule)] >>
    /\ UNCHANGED <<legacyVars, files, returned, graph, seeders, disk, uuid, keyVars, prev, calls, pc, given, merged,
                   components, requests, capsules, rejected, before, written,
                   persisted, after, failure>>

\* runInstall rejects
InstallReject ==
    /\ pc = "writing"
    /\ installs # <<>>
    /\ pc' = "failed"
    /\ failure' = "install"
    /\ UNCHANGED <<legacyVars, files, returned, graph, seeders, disk, uuid, keyVars, prev, calls, given, merged,
                   components, requests, capsules, rejected, before, written,
                   persisted, after, installs>>

\* lines 113-116: the SubNetwork is returned
Return ==
    /\ pc = "writing"
    /\ AfterJoined
    /\ InstallEnabled(merged.capsule) => installs # <<>>
    /\ pc' = "returned"
    /\ UNCHANGED <<legacyVars, files, returned, graph, seeders, disk, uuid, keyVars, prev, calls, given, merged,
                   components, requests, capsules, rejected, before, written,
                   persisted, after, installs, failure>>

----------------------------------------------------------------------------
(* The legacy entry point capsuleIsolate (capsule-isolate.ts).  Its strings *)
(* are TLA+ strings and its objects are <<key, value>> sequences.  The two  *)
(* module-level default objects are variables: _.assign writes into its     *)
(* first argument and returns that same object.                             *)

LEGACY_DEFAULT_ISOLATION_OPTIONS ==
    << <<"override", "false">>,
       <<"writePackageJson", "true">>,
       <<"writeConfig", "false">>,
       <<"writeBitDependencies", "true">>,
       <<"createNpmLinkFiles", "false">>,
       <<"saveDependenciesAsComponents", "false">>,
       <<"writeDists", "true">>,
       <<"installNpmPackages", "true">>,
       <<"installPeerDependencies", "false">>,
       <<"verbose", "true">>,
       <<"excludeRegistryPrefix", "true">>,
       <<"silentPackageManagerResult", "false">>,
       <<"shouldBuildDependencies", "false">>,
       <<"keepExistingCapsule", "true">>,
       <<"baseDir", TmpDir>> >>

DEFAULT_GLOBAL_OPTIONS == << <<"new", "false">>, <<"installPackages", "false">> >>

\* every key a legacy options object can hold, in sorted order
LegacySortedKeys ==
    <<"baseDir", "createNpmLinkFiles", "excludeRegistryPrefix", "installNpmPackages",
      "installPeerDependencies", "keepExistingCapsule", "override",
      "saveDependenciesAsComponents", "shouldBuildDependencies",
      "silentPackageManagerResult", "verbose", "writeBitDependencies", "writeConfig",
      "writeDists", "writePackageJson", "writeToPath">>

RECURSIVE legacyCanonicalFrom(_, _)
legacyCanonicalFrom(o, i) ==
    IF i > Len(LegacySortedKeys) THEN ""
    ELSE (IF HasKey(o, LegacySortedKeys[i])
          THEN LegacySortedKeys[i] \o "=" \o Get(o, LegacySortedKeys[i]) \o ";"
          ELSE "") \o legacyCanonicalFrom(o, i + 1)

\* object-hash of a legacy options object
legacyHash(o) == "#" \o legacyCanonicalFrom(o, 1)

\* path.join of capsule-isolate.ts
legacyPathJoin(dir, name) == dir \o "/" \o name

\* the token v4() hands out in the n-th capsuleIsolate call
legacyV4(n) == "u" \o ToString(n)

\* generateWrkDir of capsule-isolate.ts
legacyGenerateWrkDir(bitId, globalHash, capsuleOptions, globalCapsuleOptions) ==
    IF Truthy(Get(globalCapsuleOptions, "new"))
    THEN legacyPathJoin(Get(capsuleOptions, "baseDir"), bitId \o "_" \o globalHash)
    ELSE IF Truthy(Get(globalCapsuleOptions, "hash"))
    THEN legacyPathJoin(Get(capsuleOptions, "baseDir"),
                        bitId \o "_" \o Get(globalCapsuleOptions, "hash"))
    ELSE legacyPathJoin(Get(capsuleOptions, "baseDir"),
                        bitId \o "_" \o legacyHash(capsuleOptions))

\* createOrGetCapsules: the capsule of every component, with its wrkDir
createOrGetCapsules(comps, capsuleOptions, globalCapsuleOptions, globalHash) ==
    [i \in 1..Len(comps) |->
        [bitId |-> comps[i],
         wrkDir |-> legacyGenerateWrkDir(comps[i], globalHash, capsuleOptions,
                                         globalCapsuleOptions)]]

\* uniqComponents of a call: the component a and its dependency b
LegacyComponents == <<"a", "b">>

\* the capsuleOptions and globalCapsuleOptions a call is made with; omitted
\* says that the third argument is left out, so that the parameter is bound
\* to DEFAULT_GLOBAL_OPTIONS itself
LegacyArguments ==
    { [capsuleOptions |-> co, globalCapsuleOptions |-> go, omitted |-> FALSE] :
        co \in { <<>>, << <<"baseDir", "/cap">> >> },
        go \in { <<>>, << <<"new", "true">> >>, << <<"hash", "h">> >>,
                 << <<"installPackages", "true">> >> } }
    \cup
    { [capsuleOptions |-> co, globalCapsuleOptions |-> <<>>, omitted |-> TRUE] :
        co \in { <<>>, << <<"baseDir", "/cap">> >> } }

\* the object the globalCapsuleOptions parameter of the call is bound to
globalCapsuleOptionsParameter ==
    IF legacyArgs.omitted THEN globalDefaults ELSE legacyArgs.globalCapsuleOptions

LegacyIdle ==
    /\ isolationDefaults = LEGACY_DEFAULT_ISOLATION_OPTIONS
    /\ globalDefaults = DEFAULT_GLOBAL_OPTIONS
    /\ legacyPc = "idle"
    /\ legacyArgs = [capsuleOptions |-> <<>>, globalCapsuleOptions |-> <<>>,
                     omitted |-> TRUE]
    /\ legacyCapsules = <<>>
    /\ legacyTasks = <<>>
    /\ legacyInstalled = FALSE
    /\ legacyCalls = 0

\* lines 160-181: capsuleIsolate up to the capsules createOrGetCapsules yields;
\* the two _.assign calls of lines 178-179 write into the default objects
capsuleIsolate ==
    \E args \in LegacyArguments :
        LET isolation == ObjectAssign(isolationDefaults, args.capsuleOptions)
            global == IF args.omitted THEN globalDefaults
                      ELSE ObjectAssign(globalDefaults, args.globalCapsuleOptions)
        IN  /\ legacyPc \in {"idle", "done"}
            /\ legacyCalls < MaxLegacyCalls
            /\ legacyCalls' = legacyCalls + 1
            /\ legacyArgs' = args
            /\ isolationDefaults' = isolation
            /\ globalDefaults' = global
            /\ legacyCapsules' = createOrGetCapsules(LegacyComponents, isolation, global,
                                                     legacyV4(legacyCalls + 1))
            /\ legacyTasks' = [i \in 1..Len(LegacyComponents) |-> "getInstance"]
            /\ legacyInstalled' = FALSE
            /\ legacyPc' = "isolating"
            /\ UNCHANGED <<keyVars, uuid, netVars>>

\* lines 134-143: the task of capsule i has its isolator and calls
\* isolator.isolate with _.assign(DEFAULT_ISOLATION_OPTIONS, {writeToPath}, capsuleOptions)
IsolateStart(i) ==
    /\ legacyPc = "isolating"
    /\ i \in DOMAIN legacyTasks
    /\ legacyTasks[i] = "getInstance"
    /\ isolationDefaults' =
         ObjectAssign(ObjectAssign(isolationDefaults,
                                   << <<"writeToPath", legacyCapsules[i].wrkDir>> >>),
                      legacyArgs.capsuleOptions)
    /\ legacyTasks' = [legacyTasks EXCEPT ![i] = "isolate"]
    /\ UNCHANGED <<keyVars, uuid, netVars, globalDefaults, legacyPc, legacyArgs,
                   legacyCapsules, legacyInstalled, legacyCalls>>

\* line 144: isolator.isolate of capsule i has resolved and its link files
\* are written
IsolateFinish(i) ==
    /\ legacyPc = "isolating"
    /\ i \in DOMAIN legacyTasks
    /\ legacyTasks[i] = "isolate"
    /\ legacyTasks' = [legacyTasks EXCEPT ![i] = "done"]
    /\ UNCHANGED <<keyVars, uuid, netVars, isolationDefaults, globalDefaults, legacyPc,
                   legacyArgs, legacyCapsules, legacyInstalled, legacyCalls>>

\* lines 183-185: every task is done, installpackages runs if the
\* globalCapsuleOptions parameter says so, and the capsules are returned
LegacyReturn ==
    /\ legacyPc = "isolating"
    /\ \A i \in DOMAIN legacyTasks : legacyTasks[i] = "done"
    /\ legacyInstalled' = Truthy(Get(globalCapsuleOptionsParameter, "installPackages"))
    /\ legacyPc' = "done"
    /\ UNCHANGED <<keyVars, uuid, netVars, isolationDefaults, globalDefaults, legacyArgs,
                   legacyCapsules, legacyTasks, legacyCalls>>

----------------------------------------------------------------------------
(* The worlds createSubNetwork runs in *)

NoDeps == [k \in DependencyKinds |-> {}]

A == <<"a">>
B == <<"b">>
C == <<"c">>

\* a depends on b
Chain ==
    [present |-> {A, B},
     deps |-> [id \in Ids |-> IF id = A THEN [NoDeps EXCEPT !["dependencies"] = {B}]
                              ELSE NoDeps],
     packageJson |-> [id \in Ids |-> IF id = A THEN "m1" ELSE "m2"]]

\* a depends on b and dev-depends on c, which has no node
Gap ==
    [present |-> {A, B},
     deps |-> [id \in Ids |-> IF id = A
                              THEN [NoDeps EXCEPT !["dependencies"] = {B},
                                                  !["devDependencies"] = {C}]
                              ELSE NoDeps],
     packageJson |-> [id \in Ids |-> "m1"]]

\* b depends on a, a tester-depends on b; the writer emits no manifest for a
Cycle ==
    [present |-> {A, B},
     deps |-> [id \in Ids |-> IF id = A THEN [NoDeps EXCEPT !["testerDependencies"] = {B}]
                              ELSE IF id = B THEN [NoDeps EXCEPT !["dependencies"] = {A}]
                              ELSE NoDeps],
     packageJson |-> [id \in Ids |-> IF id = A THEN NoFile ELSE "m1"]]

\* a depends on b and compiler-depends on c, b depends on c
Diamond ==
    [present |-> {A, B, C},
     deps |-> [id \in Ids |-> IF id = A
                              THEN [NoDeps EXCEPT !["dependencies"] = {B},
                                                  !["compilerDependencies"] = {C}]
                              ELSE IF id = B THEN [NoDeps EXCEPT !["dependencies"] = {C}]
                              ELSE NoDeps],
     packageJson |-> [id \in Ids |-> IF id = C THEN "m2" ELSE "m1"]]

Worlds ==
    { [graph |-> Chain, seeders |-> <<A>>],
      [graph |-> Gap, seeders |-> <<A>>],
      [graph |-> Cycle, seeders |-> <<A, B>>],
      [graph |-> Diamond, seeders |-> <<A>>] }

\* the working directory of a component under the default options
DefaultDir(id) ==
    createCapsule(id, DEFAULT_ISOLATION_OPTIONS, DEFAULT_OPTIONS, 0).wrkDir

\* the capsule directories as an earlier process may have left them: empty,
\* or with a manifest in the default directory of the first seed
InitialDisks(seeds) ==
    {<<>>} \cup {DefaultDir(seeds[1]) :> text : text \in {"bad", "m1 "}}

Init ==
    /\ \E w \in Worlds :
        /\ graph = w.graph
        /\ seeders = w.seeders
        /\ disk \in InitialDisks(w.seeders)
    /\ IdleCall
    /\ LegacyIdle
    /\ prevKey = NoRequest
    /\ curKey = NoRequest
    /\ uuid = 0

Next ==
    \/ ResolveClosure
    \/ CreateCapsules
    \/ \E i \in 1..Cardinality(Ids) : GetCapsuleResolve(i)
    \/ \E i \in 1..Cardinality(Ids) : GetCapsuleReject(i)
    \/ \E i \in 1..Cardinality(Ids) : ReadBefore(i)
    \/ Isolate
    \/ MaterializeThrows
    \/ \E k \in 1..Cardinality(Ids) : Persist(k)
    \/ \E k \in 1..Cardinality(Ids) : PersistReject(k)
    \/ IsolateReturn
    \/ \E i \in 1..Cardinality(Ids) : ReadAfter(i)
    \/ RunInstall
    \/ InstallReject
    \/ Return

Spec == Init /\ [][Next]_vars

----------------------------------------------------------------------------
(* Inputs of the key derivation *)

KeyIds == { <<"a", "/", "b">>, <<"a", "_", "b">> }

KeyOptionValues ==
    [baseDir |-> {TmpDir, "/cap"},
     installPackages |-> {"true", "false"},
     workspace |-> {"string", "ws"}]

KeyOptionPairs ==
    {<<k, v>> : k \in {"baseDir"}, v \in KeyOptionValues.baseDir}
    \cup {<<k, v>> : k \in {"installPackages"}, v \in KeyOptionValues.installPackages}
    \cup {<<k, v>> : k \in {"workspace"}, v \in KeyOptionValues.workspace}

\* caller-supplied CapsuleOptions: up to MaxOptKeys distinct keys, in any order
KeyCapsuleOptions ==
    UNION { { o \in [1..n -> KeyOptionPairs] :
                \A i, j \in 1..n : i # j => o[i][1] # o[j][1] } : n \in 0..MaxOptKeys }

KeyOrchOptions ==
    { <<>>, << <<"alwaysNew", "true">> >>, << <<"name", "n">> >>,
      << <<"alwaysNew", "true">>, <<"name", "n">> >> }

----------------------------------------------------------------------------
(* The key derivation as a state machine: two calls of createCapsule, the  *)
(* pair of requests that a claim about the derivation compares             *)

InitKey ==
    /\ prevKey = NoRequest
    /\ curKey = NoRequest
    /\ uuid = 0
    /\ graph = Chain
    /\ seeders = <<>>
    /\ disk = <<>>
    /\ IdleCall
    /\ LegacyIdle

CreateCapsuleCall ==
    \E bitId \in KeyIds, o \in KeyCapsuleOptions, orch \in KeyOrchOptions :
        /\ prevKey = NoRequest
        /\ UuidAfter(orch, uuid) <= MaxUuid
        /\ prevKey' = curKey
        /\ curKey' = createCapsule(bitId, o, orch, uuid)
        /\ uuid' = UuidAfter(orch, uuid)
        /\ UNCHANGED <<netVars, legacyVars>>

NextKey == CreateCapsuleCall

SpecKey == InitKey /\ [][NextKey]_vars

----------------------------------------------------------------------------
(* Closure resolution over every small graph *)

\* longest seed list of the closure check
MaxSeeds == 2

EdgeKinds == {"none", "dependencies", "devDependencies"}

Pairs == {p \in Ids \X Ids : p[1] # p[2]}

\* the graphs whose nodes are P: every ordered pair from a node is no edge
\* or an edge of one kind
GraphsOn(P) ==
    { [present |-> P,
       deps |-> [id \in Ids |-> [k \in DependencyKinds |->
                    {y \in Ids : id # y /\ e[<<id, y>>] = k}]],
       packageJson |-> [id \in Ids |-> "m1"]] :
      e \in {f \in [Pairs -> EdgeKinds] : \A p \in Pairs : p[1] \notin P => f[p] = "none"} }

\* every graph over Ids
EnumGraphs == UNION { GraphsOn(P) : P \in SUBSET Ids }

SeedLists == UNION { [1..n -> Ids] : n \in 0..MaxSeeds }

InitClosure ==
    /\ graph \in EnumGraphs
    /\ seeders \in SeedLists
    /\ disk = <<>>
    /\ IdleCall
    /\ LegacyIdle
    /\ prevKey = NoRequest
    /\ curKey = NoRequest
    /\ uuid = 0

NextClosure == ResolveClosure

SpecClosure == InitClosure /\ [][NextClosure]_vars

----------------------------------------------------------------------------
(* isolateComponentsInCapsules called on its own, with a CapsuleList that   *)
(* holds a capsule for some of the components                               *)

InitIsolate ==
    /\ \E w \in Worlds :
        /\ graph = w.graph
        /\ seeders = w.seeders
        /\ components = ResolveComponents(w.seeders, w.graph)
        /\ \E held \in SUBSET (1..Len(ResolveComponents(w.seeders, w.graph))) :
              capsules = [i \in held |->
                            PoolCapsule(createCapsule(components[i], <<>>, <<>>, 0))]
    /\ pc = "called"
    /\ disk = <<>>
    /\ given = [config |-> <<>>, orch |-> <<>>]
    /\ merged = [capsule |-> <<>>, orch |-> <<>>]
    /\ requests = <<>>
    /\ rejected = NoTasks
    /\ before = <<>>
    /\ written = <<>>
    /\ persisted = {}
    /\ after = <<>>
    /\ installs = <<>>
    /\ failure = "none"
    /\ files = <<>>
    /\ returned = NotReturned
    /\ prev = NoSummary
    /\ calls = 0
    /\ LegacyIdle
    /\ prevKey = NoRequest
    /\ curKey = NoRequest
    /\ uuid = 0

NextIsolate ==
    \/ Isolate
    \/ MaterializeThrows
    \/ \E k \in 1..Cardinality(Ids) : Persist(k)
    \/ \E k \in 1..Cardinality(Ids) : PersistReject(k)
    \/ IsolateReturn

SpecIsolate == InitIsolate /\ [][NextIsolate]_vars

----------------------------------------------------------------------------
(* capsuleIsolate called a number of times in a row *)

InitLegacy ==
    /\ LegacyIdle
    /\ graph = Chain
    /\ seeders = <<>>
    /\ disk = <<>>
    /\ IdleCall
    /\ prevKey = NoRequest
    /\ curKey = NoRequest
    /\ uuid = 0

NextLegacy ==
    \/ capsuleIsolate
    \/ \E i \in 1..Len(LegacyComponents) : IsolateStart(i)
    \/ \E i \in 1..Len(LegacyComponents) : IsolateFinish(i)
    \/ LegacyReturn

SpecLegacy == InitLegacy /\ [][NextLegacy]_vars

----------------------------------------------------------------------------
(* Properties *)

Range(f) == {f[i] : i \in DOMAIN f}

\* the capsules of the latest runInstall invocation
Installed == IF installs = <<>> THEN {} ELSE Range(installs[1].capsules)

\* C1: with installPackages enabled, a call that returns has invoked runInstall
\* exactly once (no call invokes it twice), and the capsules passed are exactly
\* those whose before and after snapshots are not deeply equal, each once
C1_InstallMinimization ==
    /\ Len(installs) <= 1
    /\ installs # <<>> =>
        /\ Range(installs[1].capsules) = {i \in All : before[i] # after[i]}
        /\ Len(installs[1].capsules) = Cardinality(Range(installs[1].capsules))
    /\ (pc = "returned" /\ Get(merged.capsule, "installPackages") = "true")
        => Len(installs) = 1

\* a returned call of two capsules of which one changed and one did not
C1_Witness ==
    /\ pc = "returned"
    /\ Len(components) = 2
    /\ \E i, j \in All : /\ before[i] = after[i] /\ before[i] # Null
                         /\ before[j] # after[j]
                         /\ Installed = {j}

\* the ids reachable from the set X along edges of any kind
RECURSIVE ReachableFrom(_, _)
ReachableFrom(g, X) ==
    LET next == X \cup {y \in Ids : \E x \in X \cap g.present, k \in DependencyKinds :
                                       y \in g.deps[x][k]}
    IN  IF next = X THEN X ELSE ReachableFrom(g, next)

\* C2: the resolved component list holds exactly the graph nodes that are a
\* seed or reachable from a seed, each once; ids without a node are dropped
C2_ClosureCompleteness ==
    pc = "resolved" =>
        /\ Range(components) = ReachableFrom(graph, Range(seeders)) \cap graph.present
        /\ Len(components) = Cardinality(Range(components))

\* b is a seed and also reachable from the seed a, c is reachable and has no node
C2_Witness ==
    /\ pc = "resolved"
    /\ seeders = <<A, B>>
    /\ B \in graph.deps[A]["dependencies"]
    /\ C \in graph.deps[B]["devDependencies"]
    /\ graph.present = {A, B}
    /\ components = <<B, A>>

\* the value an option has for the caller: the given one, else the default
EffectiveOption(o, k) ==
    IF HasKey(o, k) THEN Get(o, k) ELSE Get(DEFAULT_ISOLATION_OPTIONS, k)

SameOptions(o1, o2) ==
    \A k \in Range(SortedKeys) : EffectiveOption(o1, k) = EffectiveOption(o2, k)

HashKeyed(request) ==
    Get(request.orch, "alwaysNew") = "false" /\ ~HasKey(request.orch, "name")

\* C3: two createCapsule calls for the same id with alwaysNew=false, no name
\* and options that agree once defaults are applied request the same
\* working directory and the same resource id
C3_KeyDeterminism ==
    ( /\ prevKey # NoRequest
      /\ prevKey.bitId = curKey.bitId
      /\ HashKeyed(prevKey) /\ HashKeyed(curKey)
      /\ SameOptions(prevKey.given, curKey.given) )
    => /\ prevKey.wrkDir = curKey.wrkDir
       /\ prevKey.resourceId = curKey.resourceId

\* the same options, once with an explicit default and in another key order
C3_Witness ==
    /\ prevKey.given = << <<"installPackages", "true">>, <<"workspace", "ws">>,
                          <<"baseDir", "/cap">> >>
    /\ curKey.given = << <<"baseDir", "/cap">>, <<"workspace", "ws">> >>
    /\ prevKey.bitId = curKey.bitId
    /\ HashKeyed(prevKey) /\ HashKeyed(curKey)
    /\ prevKey.wrkDir = curKey.wrkDir

\* two calls in a row with the same arguments, alwaysNew=false and installs
\* enabled, the first on capsules without a manifest, both returned
IdenticalRerun ==
    /\ pc = "returned"
    /\ prev.pc = "returned"
    /\ prev.given = given
    /\ Get(merged.orch, "alwaysNew") = "false"
    /\ Get(merged.capsule, "installPackages") = "true"
    /\ prev.emptyBefore

FailedRead(i) == before[i].kind # "object"

C6_Original ==
    pc = "capsules" =>
        \A i \in DOMAIN before :
            LET text == ReadFile(disk, capsules[i].wrkDir)
            IN  before[i] = IF text \in Parseable
                            THEN [kind |-> "object", val |-> JSONParse(text)]
                            ELSE Null

\* C7 as stated: a dependency id without a node does not make
\* isolateComponentsInCapsules throw
C7_Original ==
    (\E i \in All, k \in DependencyKinds :
        graph.deps[components[i]][k] \ graph.present # {})
    => failure # "TypeError"

\* C8: with installPackages=false in the merged options runInstall is never
\* invoked
C8_InstallGating ==
    Get(merged.capsule, "installPackages") = "false" => installs = <<>>

\* a returned call with installs disabled and a capsule whose manifest changed
C8_Witness ==
    /\ pc = "returned"
    /\ Get(merged.capsule, "installPackages") = "false"
    /\ \E i \in All : before[i] # after[i]

\* C9: a capsule is requested only after the closure is resolved, a before
\* snapshot is read only after every capsule is acquired, a capsule is written
\* only after every before snapshot is read, an after snapshot is read only
\* after every write has completed, and runInstall starts only after every
\* after snapshot is read
C9_PhaseOrdering ==
    /\ requests # <<>> => pc \notin {"idle", "resolved"}
    /\ DOMAIN capsules # {} => Len(requests) = Len(components)
    /\ DOMAIN before # {} => DOMAIN capsules = All
    /\ (written # <<>> \/ persisted # {}) => DOMAIN before = All
    /\ DOMAIN after # {} => persisted = 1..Len(written) /\ Len(written) = Len(components)
    /\ installs # <<>> => DOMAIN after = All

\* the write of the second component completed before that of the first
C9_Witness ==
    /\ pc = "writing"
    /\ persisted = {2}
    /\ DOMAIN before = {1, 2}

\* C10: when getCapsule fails for a component the call fails: nothing is
\* returned, no snapshot is taken, no capsule is written, runInstall is not
\* invoked
C10_FailFastAcquisition ==
    rejected.getCapsule # {} =>
        /\ pc = "failed"
        /\ before = <<>> /\ after = <<>>
        /\ written = <<>> /\ persisted = {}
        /\ installs = <<>>

\* one getCapsule rejected, another resolved
C10_Witness ==
    /\ rejected.getCapsule # {}
    /\ DOMAIN capsules # {}

\* the written components whose files reached their capsule
Materialized ==
    {k \in persisted : /\ capsuleListGetValue(capsules, written[k]) # NoCapsule
                       /\ graph.packageJson[written[k]] # NoFile}

\* C11: when the writer, the link generator or a capsule write fails, the
\* call fails, runInstall is not invoked in it, and every manifest a persist
\* task of the call has written is still in its capsule with the content
\* that was written
C11_NoRollback ==
    failure \in {"writer", "persist"} =>
        /\ pc = "failed"
        /\ installs = <<>>
        /\ after = <<>>
        /\ \A k \in Materialized :
              LET dir == capsuleListGetValue(capsules, written[k]).wrkDir
              IN  dir \in DOMAIN disk /\ disk[dir] = graph.packageJson[written[k]]

\* a capsule write failed after two other components had been written
C11_Witness ==
    /\ failure = "persist"
    /\ Cardinality(Materialized) = 2
    /\ rejected.persist # {}

\* both requests force a fresh capsule
BothAlwaysNew ==
    /\ prevKey # NoRequest
    /\ Get(prevKey.orch, "alwaysNew") = "true"
    /\ Get(curKey.orch, "alwaysNew") = "true"

\* C12: two createCapsule calls with alwaysNew=true for the same id and the
\* same capsule options request different working directories and different
\* resource ids, with or without a name
C12_ForcedFreshness ==
    ( /\ BothAlwaysNew
      /\ prevKey.bitId = curKey.bitId
      /\ SameOptions(prevKey.given, curKey.given) )
    => /\ prevKey.wrkDir # curKey.wrkDir
       /\ prevKey.resourceId # curKey.resourceId

\* the same id and options twice with alwaysNew, the second time with a name
C12_Witness ==
    /\ BothAlwaysNew
    /\ prevKey.bitId = curKey.bitId
    /\ prevKey.given = curKey.given
    /\ ~HasKey(prevKey.orch, "name") /\ HasKey(curKey.orch, "name")
    /\ prevKey.wrkDir # curKey.wrkDir

\* the request is keyed by the name the caller supplied
NameKeyed(request) ==
    Get(request.orch, "alwaysNew") = "false" /\ Truthy(Get(request.orch, "name"))

\* C13: two createCapsule calls with alwaysNew=false, the same name, the same
\* id and the same baseDir request the same working directory and the same
\* resource id, whatever the other capsule options are
C13_NamedReuse ==
    ( /\ prevKey # NoRequest
      /\ prevKey.bitId = curKey.bitId
      /\ NameKeyed(prevKey) /\ NameKeyed(curKey)
      /\ Get(prevKey.orch, "name") = Get(curKey.orch, "name")
      /\ EffectiveOption(prevKey.given, "baseDir") = EffectiveOption(curKey.given, "baseDir") )
    => /\ prevKey.wrkDir = curKey.wrkDir
       /\ prevKey.resourceId = curKey.resourceId

\* the same name and baseDir with different installPackages and workspace
C13_Witness ==
    /\ prevKey # NoRequest
    /\ prevKey.bitId = curKey.bitId
    /\ NameKeyed(prevKey) /\ NameKeyed(curKey)
    /\ EffectiveOption(prevKey.given, "baseDir") = "/cap"
    /\ EffectiveOption(curKey.given, "baseDir") = "/cap"
    /\ EffectiveOption(prevKey.given, "installPackages")
         # EffectiveOption(curKey.given, "installPackages")
    /\ EffectiveOption(prevKey.given, "workspace") # EffectiveOption(curKey.given, "workspace")
    /\ prevKey.wrkDir = curKey.wrkDir

\* the directories and the install decision a capsuleIsolate call with the
\* arguments of the latest call has when the defaults hold their initial values
FreshCapsules ==
    createOrGetCapsules(LegacyComponents,
                        ObjectAssign(LEGACY_DEFAULT_ISOLATION_OPTIONS,
                                     legacyArgs.capsuleOptions),
                        ObjectAssign(DEFAULT_GLOBAL_OPTIONS,
                                     legacyArgs.globalCapsuleOptions),
                        legacyV4(legacyCalls))

FreshInstallDecision ==
    Truthy(Get(ObjectAssign(DEFAULT_GLOBAL_OPTIONS, legacyArgs.globalCapsuleOptions),
               "installPackages"))

\* C14 as stated: the default objects keep their initial values, and the
\* working directories and the install decision of a call are those its own
\* arguments give
C14_Original ==
    /\ isolationDefaults = LEGACY_DEFAULT_ISOLATION_OPTIONS
    /\ globalDefaults = DEFAULT_GLOBAL_OPTIONS
    /\ legacyPc # "idle" => legacyCapsules = FreshCapsules
    /\ legacyPc = "done" => legacyInstalled = FreshInstallDecision

\* C15 as stated: while isolator.isolate runs for a capsule, the options
\* object it was handed has writeToPath equal to the wrkDir of that capsule
C15_Original ==
    \A i \in DOMAIN legacyTasks :
        legacyTasks[i] = "isolate" =>
            Get(isolationDefaults, "writeToPath") = legacyCapsules[i].wrkDir

\* the file sequence is the links of the component followed by its own files
LinksFirst(fs, g, id) ==
    /\ fs = getComponentLinks(g, id) \o populateComponentsFilesToWrite(g, id)
    /\ \A i, j \in 1..Len(fs) : (fs[i].kind = "own" /\ fs[j].kind = "link") => j < i
    /\ \A i \in 1..Len(populateComponentsFilesToWrite(g, id)) :
          \E j \in 1..Len(fs) : fs[j] = populateComponentsFilesToWrite(g, id)[i]

\* C16: once the links are generated, the file sequence persisted for every
\* component is its generated link files followed by the files the writer
\* populated, every populated file still present
C16_LinkFilesFirst ==
    written # <<>> =>
        /\ DOMAIN files = 1..Len(written)
        /\ \A k \in 1..Len(written) : LinksFirst(files[k], graph, written[k])

\* a component with two links and two own files has been persisted
C16_Witness ==
    \E k \in persisted :
        /\ Len(files[k]) = 4
        /\ files[k][1].kind = "link" /\ files[k][2].kind = "link"
        /\ files[k][4].name = "package.json"

\* the written components for which the CapsuleList held a capsule
PersistedIntoCapsule ==
    {k \in persisted : capsuleListGetValue(capsules, written[k]) # NoCapsule}

\* C17 as stated: the list isolateComponentsInCapsules returns holds exactly
\* the components whose files were persisted into a capsule
C17_Original ==
    returned.done => Range(returned.value) = {written[k] : k \in PersistedIntoCapsule}

\* C18 as stated: for fixed options two different component ids are never
\* given the same working directory
C18_Original ==
    ( /\ prevKey # NoRequest
      /\ prevKey.bitId # curKey.bitId
      /\ prevKey.given = curKey.given
      /\ prevKey.orch = curKey.orch
      /\ Get(curKey.orch, "alwaysNew") = "false" )
    => prevKey.wrkDir # curKey.wrkDir

\* C19 as stated: once the call has returned or failed, no task of the call
\* obtains a capsule or writes to a capsule any more
C19_Original ==
    [][ (pc \in {"returned", "failed"} /\ pc' = pc)
        => (capsules' = capsules /\ disk' = disk) ]_vars

\* C20 as stated: createSubNetwork requests the capsule of a component under
\* the workspace and resource id a direct createCapsule call with the same
\* arguments uses, and under workspaceName when no workspace is given
C20_Original ==
    (requests # <<>> /\ Get(merged.orch, "alwaysNew") = "false") =>
        \A i \in 1..Len(requests) :
            LET direct == createCapsule(components[i], given.config, given.orch, uuid)
            IN  /\ requests[i].resourceId = direct.resourceId
                /\ requests[i].workspace = direct.workspace
                /\ ~HasKey(given.config, "workspace") =>
                      requests[i].workspace = workspaceName

====
